---- MODULE Spec2Model ----
(***************************************************************************)
(* A model of rules_python_poetry.py: the artifact selection               *)
(* (best_compatible_file), the marker projection (evaluated_deps), the     *)
(* PyPI link resolver with its on-disk cache (PyPILinkResolver) and the    *)
(* resolution driver (main).                                               *)
(***************************************************************************)
EXTENDS Integers, Sequences, FiniteSets, TLC

VARIABLES
    \* best_compatible_file: its two arguments, its result, and whether it ran
    files, compatible_tags, bcf_result, bcf_pc,
    \* evaluated_deps: its argument, the environment, its result, and whether it ran
    pkg, environment, deps_result, deps_pc,
    \* PyPILinkResolver: the cache file on disk, the object's two fields, and
    \* where the process is in the resolver's life
    cache_file, _cache, _cache_modified, res_pc,
    \* what was observed of the resolver: the GET requests sent (package names,
    \* in order), the arguments and result of the last get_url call, the number
    \* of get_url calls, of entries get_url recorded, and of times the cache
    \* file was opened for writing
    requests, last_call, calls, recorded, writes,
    \* main: the parsed lock file, --override-pkg, the two output files, the
    \* packages dict, the position in the loop over the packages, where main
    \* is, and the exception that ended it
    lock_file, override_pkg, packages_bzl, requirements_bzl, packages, idx,
    main_pc, failure

bcfVars == <<files, compatible_tags, bcf_result, bcf_pc>>
depVars == <<pkg, environment, deps_result, deps_pc>>
resVars == <<cache_file, _cache, _cache_modified, res_pc,
             requests, last_call, calls, recorded, writes>>
mainVars == <<lock_file, override_pkg, packages_bzl, requirements_bzl, packages,
              idx, main_pc, failure>>
vars == <<bcfVars, depVars, resVars, mainVars>>

\* Python's None; a record, so that it compares with the dicts it stands in for.
None == [none |-> TRUE]

\* An exception leaving a function.
Raise(what) == [raise |-> what]

Raised(v) == "raise" \in DOMAIN v

\* A list a function returns, wrapped so that it compares with Raise(what).
Return(list) == [value |-> list]

(***************************************************************************)
(* Bounds of the model.                                                    *)
(***************************************************************************)
MaxFiles == 3
MaxTags == 2
MaxLeaves == 3
MaxCalls == 3
MaxPackages == 2

\* All sequences over S of length at most n.
SeqsUpTo(S, n) == UNION {[1..k -> S] : k \in 0..n}

(***************************************************************************)
(* File names.  A name is kept as its "-"-separated segments, each a       *)
(* sequence of "."-separated parts, and its suffix:                        *)
(* foo-1.0-py2.py3-none-any.whl is                                         *)
(* <<<<"foo">>, <<"1","0">>, <<"py2","py3">>, <<"none">>, <<"any">>>>      *)
(* with suffix "whl".                                                      *)
(***************************************************************************)
FileName(segs, ext) == [segs |-> segs, ext |-> ext]

\* filename.endswith(".whl")
IsWheelName(filename) == filename.ext = "whl"

\* filename.endswith(".tar.gz") or filename.endswith(".zip")
IsSourceName(filename) == filename.ext = "tar.gz" \/ filename.ext = "zip"

\* filename[:-4].rsplit("-", 3) unpacks into four names only when the name has
\* at least four "-"-separated segments; otherwise the unpacking raises.
WheelNameSplits(filename) == Len(filename.segs) >= 4

\* extract_wheel_filename_tags: the tags a wheel name encodes, in the order the
\* three nested loops yield them (interpreters outermost, platforms innermost).
extract_wheel_filename_tags(filename) ==
    LET n == Len(filename.segs)
        interpreters == filename.segs[n - 2]
        abis == filename.segs[n - 1]
        platforms == filename.segs[n]
        na == Len(abis)
        np == Len(platforms)
    IN  [k \in 1..(Len(interpreters) * na * np) |->
            <<interpreters[((k - 1) \div (na * np)) + 1],
              abis[(((k - 1) \div np) % na) + 1],
              platforms[((k - 1) % np) + 1]>>]

\* compatible_tags.index(tag) does not raise ValueError
InList(seq, x) == \E i \in 1..Len(seq) : seq[i] = x

\* compatible_tags.index(tag): the 0-based position of the first occurrence
Index(seq, x) == (CHOOSE i \in 1..Len(seq) :
                    seq[i] = x /\ \A j \in 1..(i - 1) : seq[j] # x) - 1

\* a tie replaces the running best
ReplacesBestOnTie(best_wheel, compatible_tag_index, best_wheel_tag_idx) ==
    best_wheel = None \/ compatible_tag_index <= best_wheel_tag_idx

\* line 218: `not best_wheel or compatible_tag_index < best_wheel_tag_idx`
ReplacesBest(best_wheel, compatible_tag_index, best_wheel_tag_idx) ==
    best_wheel = None \/ compatible_tag_index < best_wheel_tag_idx

\* lines 214-223: the loop over one wheel's tags, from tag k on; st holds the
\* function's three locals
RECURSIVE TagLoop(_, _, _, _, _)
TagLoop(st, f, tags, k, ctags) ==
    IF k > Len(tags) THEN st
    ELSE IF InList(ctags, tags[k])
            /\ ReplacesBest(st.best_wheel, Index(ctags, tags[k]), st.best_wheel_tag_idx)
         THEN TagLoop([st EXCEPT !.best_wheel = f,
                                 !.best_wheel_tag_idx = Index(ctags, tags[k])],
                      f, tags, k + 1, ctags)
         ELSE TagLoop(st, f, tags, k + 1, ctags)

\* the first source archive is kept
KeepFirstSource(source_dist, f) == IF source_dist = None THEN f ELSE source_dist

\* line 226: `source_dist = f`
KeepSource(source_dist, f) == f

\* lines 210-226: the loop over the files, from file i on
RECURSIVE FileLoop(_, _, _, _)
FileLoop(st, fs, i, ctags) ==
    IF i > Len(fs) THEN st
    ELSE LET f == fs[i]
             filename == f.file
         IN  IF IsWheelName(filename)
             THEN IF WheelNameSplits(filename)
                  THEN FileLoop(TagLoop(st, f, extract_wheel_filename_tags(filename), 1, ctags),
                                fs, i + 1, ctags)
                  ELSE Raise("ValueError")
             ELSE IF IsSourceName(filename)
                  THEN FileLoop([st EXCEPT !.source_dist = KeepSource(st.source_dist, f)],
                                fs, i + 1, ctags)
                  ELSE FileLoop(st, fs, i + 1, ctags)

\* {"type": t, **f}
Dist(t, f) == [type |-> t, file |-> f.file, hash |-> f.hash]

\* lines 228-234: what is returned once the loop has ended with locals st, or
\* the exception that left the loop
Selected(st) ==
    IF Raised(st) THEN st
    ELSE IF st.best_wheel # None THEN Dist("wheel", st.best_wheel)
    ELSE IF st.source_dist # None THEN Dist("source", st.source_dist)
    ELSE None

\* best_compatible_file(files, compatible_tags)
best_compatible_file(fs, ctags) ==
    Selected(FileLoop([source_dist |-> None, best_wheel |-> None,
                       best_wheel_tag_idx |-> -1], fs, 1, ctags))

(***************************************************************************)
(* The inputs best_compatible_file is applied to.                          *)
(***************************************************************************)
TagCp38 == <<"cp38", "cp38", "linux">>
TagPy3Linux == <<"py3", "none", "linux">>
TagPy3Any == <<"py3", "none", "any">>
TagUniverse == {TagCp38, TagPy3Linux, TagPy3Any}

Stem == <<<<"foo">>, <<"1", "0">>>>
WheelCp38 == FileName(Stem \o <<<<"cp38">>, <<"cp38">>, <<"linux">>>>, "whl")
WheelUniversal == FileName(Stem \o <<<<"py2", "py3">>, <<"none">>, <<"any">>>>, "whl")
WheelPy3 == FileName(Stem \o <<<<"py3">>, <<"none">>, <<"linux", "any">>>>, "whl")
WheelBad == FileName(<<<<"foo">>>>, "whl")
SdistTar == FileName(Stem, "tar.gz")
SdistZip == FileName(Stem, "zip")
EggFile == FileName(Stem, "egg")

\* A lockfile hash "sha256:<hex>", kept as its prefix and the rest.
Hash(algo, hex) == [algo |-> algo, hex |-> hex]

HashOf(filename) ==
    CASE filename = WheelCp38 -> Hash("sha256", "h1")
      [] filename = WheelUniversal -> Hash("sha256", "h2")
      [] filename = WheelPy3 -> Hash("sha256", "h3")
      [] filename = WheelBad -> Hash("sha256", "h4")
      [] OTHER -> Hash("sha256", "h5")

FileRec(filename) == [file |-> filename, hash |-> HashOf(filename)]

FileUniverse ==
    {FileRec(n) : n \in {WheelCp38, WheelUniversal, WheelPy3, WheelBad,
                         SdistTar, SdistZip, EggFile}}

(***************************************************************************)
(* Markers.  Marker(text)._markers is a list whose items are comparison    *)
(* tuples (lhs, op, rhs), the strings "and" and "or", and nested lists     *)
(* (parenthesised sub-expressions).  Each side of a comparison is a        *)
(* Variable or a Value.                                                    *)
(***************************************************************************)
Variable(name) == [isvar |-> TRUE, value |-> name]
Value(s) == [isvar |-> FALSE, value |-> s]
Tuple(lhs, op, rhs) == [kind |-> "tuple", lhs |-> lhs, op |-> op, rhs |-> rhs]
Str(s) == [kind |-> "str", value |-> s]
List(items) == [kind |-> "list", items |-> items]

\* lines 150-153: the name remove_extra_marker takes a comparison to be about
ClauseVariable(marker) ==
    IF marker.lhs.isvar THEN marker.lhs.value ELSE marker.rhs.value

\* nested lists are left as they are
RemoveExtraShallow(markers) ==
    LET Kept(marker) == ~(marker.kind = "tuple" /\ ClauseVariable(marker) = "extra")
    IN  SelectSeq(markers, Kept)

\* remove_extra_marker(markers)
RECURSIVE remove_extra_marker(_)
remove_extra_marker(markers) ==
    IF markers = <<>> THEN <<>>
    ELSE LET marker == Head(markers)
             rest == remove_extra_marker(Tail(markers))
         IN  CASE marker.kind = "list" ->
                    <<List(remove_extra_marker(marker.items))>> \o rest
               [] marker.kind = "tuple" ->
                    IF ClauseVariable(marker) = "extra" THEN rest ELSE <<marker>> \o rest
               [] OTHER -> <<marker>> \o rest

\* packaging's version order on the version strings of the model
VersionRank(v) ==
    CASE v = "3.5" -> 35
      [] v = "3.6" -> 36
      [] v = "3.8" -> 38
      [] OTHER -> 0

\* packaging.markers._eval_op: a version specifier where op and rhs form one,
\* the plain string operator otherwise
_eval_op(lhs, op, rhs) ==
    CASE op = ">=" -> VersionRank(lhs) >= VersionRank(rhs)
      [] op = "==" -> lhs = rhs
      [] op = "!=" -> lhs # rhs

\* packaging.markers._get_env raises UndefinedEnvironmentName for a name the
\* environment lacks
Undefined(env, name) == name \notin DOMAIN env

\* the name a comparison looks up in the environment: its lhs when that is a
\* Variable, otherwise its rhs, whatever that is
LookedUp(marker) ==
    IF marker.lhs.isvar THEN marker.lhs.value ELSE marker.rhs.value

\* the comparison of one tuple, once its name is known to be defined
EvalTuple(marker, env) ==
    IF marker.lhs.isvar
    THEN _eval_op(env[marker.lhs.value], marker.op, marker.rhs.value)
    ELSE _eval_op(marker.lhs.value, marker.op, env[marker.rhs.value])

\* whether packaging.markers._evaluate_markers raises: it evaluates every item
\* of the list, in order, before it combines them
RECURSIVE EvaluateRaises(_, _)
EvaluateRaises(markers, env) ==
    \E i \in 1..Len(markers) :
        \/ markers[i].kind = "tuple" /\ Undefined(env, LookedUp(markers[i]))
        \/ markers[i].kind = "list" /\ EvaluateRaises(markers[i].items, env)

\* packaging.markers._evaluate_markers: groups = [[]]; a tuple or a nested list
\* appends its value to the last group, "or" opens a new group, "and" does
\* nothing; the result is any(all(group) for group in groups)
RECURSIVE EvalGroups(_, _, _, _)
RECURSIVE _evaluate_markers(_, _)
EvalGroups(markers, k, groups, env) ==
    IF k > Len(markers) THEN groups
    ELSE LET marker == markers[k]
             n == Len(groups)
         IN  CASE marker.kind = "list" ->
                    EvalGroups(markers, k + 1,
                        [groups EXCEPT ![n] = Append(@, _evaluate_markers(marker.items, env))],
                        env)
               [] marker.kind = "tuple" ->
                    EvalGroups(markers, k + 1,
                        [groups EXCEPT ![n] = Append(@, EvalTuple(marker, env))], env)
               [] OTHER ->
                    IF marker.value = "or"
                    THEN EvalGroups(markers, k + 1, Append(groups, <<>>), env)
                    ELSE EvalGroups(markers, k + 1, groups, env)

_evaluate_markers(markers, env) ==
    LET groups == EvalGroups(markers, 1, <<<<>>>>, env)
    IN  \E g \in 1..Len(groups) : \A i \in 1..Len(groups[g]) : groups[g][i]

\* line 170: `"markers" in dep`.  A dependency is a version string, a table, or
\* a list of tables (several constraints); only a table can hold the key.
HasMarkers(dep) == dep.kind = "table" /\ "markers" \in DOMAIN dep

\* lines 169-184: the loop over pkg["dependencies"], from entry i on
RECURSIVE DepLoop(_, _, _, _)
DepLoop(dependencies, i, deps, env) ==
    IF i > Len(dependencies) THEN deps
    ELSE LET k == dependencies[i].name
             dep == dependencies[i].dep
         IN  IF HasMarkers(dep)
             THEN LET markers == remove_extra_marker(dep.markers)
                  IN  IF EvaluateRaises(markers, env)
                      THEN Raise("UndefinedEnvironmentName")
                      ELSE IF ~_evaluate_markers(markers, env)
                      THEN DepLoop(dependencies, i + 1, deps, env)
                      ELSE DepLoop(dependencies, i + 1, Return(Append(deps.value, k)), env)
             ELSE DepLoop(dependencies, i + 1, Return(Append(deps.value, k)), env)

\* evaluated_deps(pkg)
evaluated_deps(p, env) == DepLoop(p.dependencies, 1, Return(<<>>), env)

(***************************************************************************)
(* The inputs evaluated_deps is applied to.                                *)
(***************************************************************************)
PyGe36 == Tuple(Variable("python_version"), ">=", Value("3.6"))
IsWin == Tuple(Variable("sys_platform"), "==", Value("win32"))
ExtraFoo == Tuple(Variable("extra"), "==", Value("foo"))
ExtraRev == Tuple(Value("foo"), "==", Variable("extra"))
ValVal == Tuple(Value("a"), "==", Value("b"))
Leaves == {PyGe36, IsWin, ExtraFoo}
BoolOps == {Str("and"), Str("or")}

\* the flat marker lists of exactly k comparisons
RECURSIVE FlatLists(_)
FlatLists(k) ==
    IF k = 1 THEN {<<a>> : a \in Leaves}
    ELSE {<<a, o>> \o r : a \in Leaves, o \in BoolOps, r \in FlatLists(k - 1)}

\* the first items of j comparisons: a comparison, or a parenthesised flat list
Atoms(j) ==
    {List(g) : g \in FlatLists(j)} \cup (IF j = 1 THEN Leaves ELSE {})

\* the marker lists of exactly k comparisons, parenthesised one level deep
RECURSIVE MarkerLists(_)
MarkerLists(k) ==
    UNION {IF j = k THEN {<<a>> : a \in Atoms(j)}
           ELSE {<<a, o>> \o r : a \in Atoms(j), o \in BoolOps, r \in MarkerLists(k - j)} :
           j \in 1..k}

\* markers with a reversed `extra` comparison, a comparison of two values (which
\* names no environment variable), and two levels of parentheses
SpecialMarkers ==
    {<<ExtraRev>>, <<ExtraRev, Str("or"), IsWin>>, <<IsWin, Str("and"), ExtraRev>>,
     <<ValVal>>, <<PyGe36, Str("or"), ValVal>>, <<ExtraFoo, Str("and"), ValVal>>,
     <<List(<<List(<<ExtraFoo>>), Str("and"), IsWin>>)>>,
     <<List(<<List(<<ExtraFoo, Str("or"), IsWin>>), Str("and"), PyGe36>>)>>,
     <<IsWin, Str("and"), List(<<List(<<ExtraFoo>>)>>)>>}

MarkerUniverse == SpecialMarkers \cup UNION {MarkerLists(k) : k \in 1..MaxLeaves}

Table(markers) == [kind |-> "table", version |-> "*", markers |-> markers]
PlainTable == [kind |-> "table", version |-> "*"]
VersionString == [kind |-> "str", version |-> "*"]
ConstraintList == [kind |-> "list", items |-> <<Table(<<IsWin>>), Table(<<PyGe36>>)>>]

DepUniverse == {VersionString, ConstraintList, PlainTable} \cup
               {Table(m) : m \in MarkerUniverse}

Environments ==
    {[n \in {"python_version", "sys_platform"} |->
        IF n = "python_version" THEN v ELSE s] : v \in {"3.5", "3.8"}, s \in {"linux", "win32"}}

Entry(name, dep) == [name |-> name, dep |-> dep]

(***************************************************************************)
(* Python and JSON values: strings, ints, dicts and lists, tagged so that  *)
(* values of different types compare.  json.load and json.dump map a JSON  *)
(* string, number, object, array and null to and from these.               *)
(***************************************************************************)
PyStr(s) == [str |-> s]
PyInt(n) == [int |-> n]
PyDict(f) == [dict |-> f]
PyList(l) == [list |-> l]
IsDict(v) == "dict" \in DOMAIN v

\* d.get(key)
DictGet(d, key) == IF key \in DOMAIN d.dict THEN d.dict[key] ELSE None

\* the truth value of a string or None
Truthy(v) == v # None /\ v # PyStr("")

\* the dict with no keys
EmptyDict == PyDict([h \in {} |-> None])

(***************************************************************************)
(* The cache file: absent, or a text that is a JSON document, or a text    *)
(* json.load rejects (empty, cut short, or not JSON at all).               *)
(***************************************************************************)
Absent == [file |-> "absent"]
JsonText(value) == [file |-> "json", value |-> value]
EmptyText == [file |-> "empty"]
PartialText(value) == [file |-> "partial", of |-> value]
GarbageText == [file |-> "garbage"]

\* line 100: the document _save_cache writes
CacheDocument(cache) == PyDict([version |-> PyInt(1), data |-> cache])

\* line 88: isinstance(saved_cache, dict) and saved_cache.get("version") == 1
IsVersionOne(saved_cache) ==
    IsDict(saved_cache) /\ DictGet(saved_cache, "version") = PyInt(1)

\* _load_cache, lines 83-91: the value of self._cache afterwards, or the
\* exception that leaves it.  open() of an absent file and json.load of a text
\* that is no JSON raise what the except clause catches; saved_cache["data"]
\* raises KeyError, which it does not.
_load_cache(file) ==
    IF file.file # "json" THEN EmptyDict
    ELSE IF IsVersionOne(file.value)
         THEN IF "data" \in DOMAIN file.value.dict
              THEN file.value.dict["data"]
              ELSE Raise("KeyError")
         ELSE EmptyDict

(***************************************************************************)
(* The package index.  A package's metadata lists, per released version,   *)
(* files with a filename, a url and a sha256 digest.                       *)
(***************************************************************************)
IndexFile(filename, url, sha256) ==
    [filename |-> filename, url |-> PyStr(url), sha256 |-> sha256]

Release(version, fs) == [version |-> version, files |-> fs]

PyPI ==
    [foo |-> <<Release("1.0", <<IndexFile("foo-cp38.whl", "https://files/foo-cp38.whl", "h1"),
                                IndexFile("foo-any.whl", "https://files/foo-any.whl", "h2")>>),
               Release("2.0", <<>>)>>,
     bar |-> <<Release("1.0", <<IndexFile("bar-any.whl", "https://files/bar-any.whl", "h3")>>)>>]

HttpOk == 200
HttpNotFound == 404
HttpErrors == {500, 503}

\* the statuses the index may answer a GET for pkg with
Statuses(name) ==
    IF name \in DOMAIN PyPI THEN {HttpOk} \cup HttpErrors ELSE {HttpNotFound} \cup HttpErrors

\* line 103: the GET requests one call of _get_metadata sends
MetadataRequests(name) == <<name>>

\* _get_metadata, lines 105-113, given the status of the response
_get_metadata(name, status) ==
    IF status = HttpNotFound THEN Raise("does not exist on PyPI")
    ELSE IF status # HttpOk THEN Raise("http status")
    ELSE PyList(PyPI[name])

\* lines 122-134: the first file of the requested version with the requested
\* digest, from release r and file k on; None when there is none
RECURSIVE FindFile(_, _, _, _, _)
FindFile(releases, r, k, version, sha256) ==
    IF r > Len(releases) THEN None
    ELSE IF releases[r].version # version \/ k > Len(releases[r].files)
         THEN FindFile(releases, r + 1, 1, version, sha256)
         ELSE IF releases[r].files[k].sha256 # sha256
              THEN FindFile(releases, r, k + 1, version, sha256)
              ELSE releases[r].files[k]

\* every lookup misses
NeverCached(cache, sha256) == None

\* line 116: self._cache.get(sha256)
CachedUrl(cache, sha256) == DictGet(cache, sha256)

\* line 133: self._cache_modified = True
MarkModified(modified) == TRUE

\* what a call did: its result (a value or an exception), the resolver's two
\* fields afterwards, the requests it sent, and the entries it recorded
Did(result, cache, modified, sent, added) ==
    [result |-> result, cache |-> cache, modified |-> modified, sent |-> sent,
     recorded |-> added]

\* lines 130-134, with the file the search found, or line 136 with None
RecordFile(cache, modified, sent, file) ==
    IF file = None THEN Did(None, cache, modified, sent, 0)
    ELSE Did(file.url,
             PyDict([h \in DOMAIN cache.dict \cup {file.sha256} |->
                        IF h = file.sha256 THEN file.url ELSE cache.dict[h]]),
             MarkModified(modified), sent, 1)

\* lines 120-136, with what _get_metadata returned or raised
SearchMetadata(cache, modified, version, sha256, sent, pkg_metadata) ==
    IF Raised(pkg_metadata) THEN Did(pkg_metadata, cache, modified, sent, 0)
    ELSE RecordFile(cache, modified, sent,
                    FindFile(pkg_metadata.list, 1, 1, version, sha256))

\* get_url(pkg, version, sha256), lines 115-136, on a resolver whose fields are
\* cache and modified, the index answering with status
get_url(cache, modified, name, version, sha256, status) ==
    IF ~IsDict(cache) THEN Did(Raise("AttributeError"), cache, modified, <<>>, 0)
    ELSE IF Truthy(CachedUrl(cache, sha256))
    THEN Did(CachedUrl(cache, sha256), cache, modified, <<>>, 0)
    ELSE SearchMetadata(cache, modified, version, sha256, MetadataRequests(name),
                        _get_metadata(name, status))

\* the file is written whatever the flag says
AlwaysSaves(modified) == TRUE

\* lines 94-95: _save_cache returns at once unless the cache was modified
Saves(modified) == modified

BcfOff ==
    /\ files = <<>>
    /\ compatible_tags = <<>>
    /\ bcf_result = None
    /\ bcf_pc = "off"

DepsOff ==
    /\ pkg = None
    /\ environment = None
    /\ deps_result = None
    /\ deps_pc = "off"

(***************************************************************************)
(* main: the resolution driver.                                            *)
(***************************************************************************)
\* line 364: f"{args.root_workspace}__{pkg['name']}-{pkg['version']}"
WorkspaceName(p) == [root_workspace |-> "root", name |-> p.name, version |-> p.version]

\* line 367: f"@{bazel_workspace_name}"
Label(bazel_workspace_name) == [at |-> bazel_workspace_name]

\* pkg['name'][0], on the package names of the model
FirstChar(name) ==
    CASE name = "foo" -> "f"
      [] name = "bar" -> "b"
      [] name = "app" -> "a"
      [] name = "Jinja2" -> "J"
      [] name = "gitpkg" -> "g"
      [] name = "pywin32" -> "p"
      [] name = "undef" -> "u"
      [] name = "badwheel" -> "b"
      [] name = "md5pkg" -> "m"
      [] OTHER -> "n"

\* line 282: the url of a source archive
SourceUrl(p, dist) ==
    [host |-> "https://files.pythonhosted.org/packages/source",
     path |-> <<FirstChar(p.name), p.name, dist.file>>]

\* lines 275-279, with what get_url did: its url, or the exception
WheelUrl(r) ==
    [result |-> IF Raised(r.result) THEN r.result
                ELSE IF ~Truthy(r.result) THEN Raise("Could not resolve PyPI url")
                ELSE r.result,
     cache |-> r.cache, modified |-> r.modified, sent |-> r.sent,
     recorded |-> r.recorded, called |-> TRUE]

\* a result of get_dist_url that did not call the resolver
NoCall(result, cache, modified) ==
    [result |-> result, cache |-> cache, modified |-> modified, sent |-> <<>>,
     recorded |-> 0, called |-> FALSE]

\* get_dist_url(dist, pkg, pypi_resolver), lines 270-283: the url or the
\* exception, and what became of the resolver
get_dist_url(dist, p, cache, modified, status) ==
    IF dist.hash.algo # "sha256"
    THEN NoCall(Raise("file hash is not sha256"), cache, modified)
    ELSE IF dist.type = "wheel"
    THEN WheelUrl(get_url(cache, modified, p.name, p.version, dist.hash.hex, status))
    ELSE NoCall(SourceUrl(p, dist), cache, modified)

\* format_bazel_dist, lines 237-267: the rule written for a package
format_bazel_dist(bazel_workspace_name, dist, url, deps) ==
    [rule |-> IF dist.type = "wheel" THEN "http_archive" ELSE "pip_install_sdist",
     name |-> bazel_workspace_name,
     sha256 |-> dist.hash.hex,
     url |-> url,
     deps |-> deps]

\* a package with a `source` is resolved like any other
NeverFromRepo(p) == FALSE

\* line 343: pkg.get("source")
FromRepo(p) == p.source

\* what one pass of the loop did: the exception that left it (or None), the
\* rules written to packages.bzl, whether packages gained an entry, and what
\* get_dist_url u did to the resolver
Pass(why, rules, mapped, u, sha256) ==
    [failure |-> why, rules |-> rules, mapped |-> mapped,
     cache |-> u.cache, modified |-> u.modified, sent |-> u.sent,
     recorded |-> u.recorded, called |-> u.called, url |-> u.result,
     sha256 |-> sha256]

\* lines 362-367, with what evaluated_deps returned or raised
WriteRule(p, dist, u, deps) ==
    IF Raised(deps) THEN Pass(deps, <<>>, FALSE, u, dist.hash.hex)
    ELSE Pass(None, <<format_bazel_dist(WorkspaceName(p), dist, u.result, deps.value)>>,
              TRUE, u, dist.hash.hex)

\* lines 359-367, with what get_dist_url returned or raised
WithUrl(p, dist, env, u) ==
    IF Raised(u.result) THEN Pass(u.result, <<>>, FALSE, u, dist.hash.hex)
    ELSE WriteRule(p, dist, u, evaluated_deps(p, env))

\* lines 351-367, with what best_compatible_file returned or raised
WithDist(p, dist, env, cache, modified, status) ==
    IF Raised(dist) THEN Pass(dist, <<>>, FALSE, NoCall(None, cache, modified), "")
    ELSE IF dist = None THEN Pass(None, <<>>, FALSE, NoCall(None, cache, modified), "")
    ELSE WithUrl(p, dist, env, get_dist_url(dist, p, cache, modified, status))

\* lines 343-367, the body of the loop for package p
ProcessPackage(p, fs, ctags, env, cache, modified, status) ==
    IF FromRepo(p) THEN Pass(None, <<>>, FALSE, NoCall(None, cache, modified), "")
    ELSE WithDist(p, best_compatible_file(fs, ctags), env, cache, modified, status)

\* line 372: {**packages, **dict(args.override_pkg)}, from pair k on
RECURSIVE Overridden(_, _, _)
Overridden(mapping, pairs, k) ==
    IF k > Len(pairs) THEN mapping
    ELSE Overridden([n \in DOMAIN mapping \cup {pairs[k][1]} |->
                        IF n = pairs[k][1] THEN pairs[k][2] ELSE mapping[n]],
                    pairs, k + 1)

\* lines 328-332 of the generated file: pypi(name) looks name.lower() up
Lower(name) == IF name = "Jinja2" THEN "jinja2" ELSE name

(***************************************************************************)
(* The inputs of main.                                                     *)
(***************************************************************************)
WheelWin == FileName(Stem \o <<<<"cp38">>, <<"cp38">>, <<"win">>>>, "whl")

Package(name, version, source, dependencies) ==
    [name |-> name, version |-> version, source |-> source,
     dependencies |-> dependencies]

PackageUniverse ==
    {Package("foo", "1.0", FALSE,
             <<Entry("bar", PlainTable), Entry("pywin32", Table(<<IsWin>>))>>),
     Package("foo", "2.0", FALSE, <<>>),
     Package("bar", "1.0", FALSE, <<>>),
     Package("app", "1.0", FALSE,
             <<Entry("gitpkg", VersionString), Entry("Jinja2", PlainTable),
               Entry("bar", Table(<<ExtraFoo, Str("or"), IsWin>>))>>),
     Package("Jinja2", "1.0", FALSE, <<>>),
     Package("gitpkg", "1.0", TRUE, <<>>),
     Package("pywin32", "1.0", FALSE, <<>>),
     Package("undef", "1.0", FALSE, <<Entry("bar", Table(<<ValVal>>))>>),
     Package("badwheel", "1.0", FALSE, <<>>),
     Package("md5pkg", "1.0", FALSE, <<>>),
     Package("nopkg", "1.0", FALSE, <<>>)}

\* lock_file["metadata"]["files"]
MetadataFiles ==
    [n \in {p.name : p \in PackageUniverse} |->
        CASE n = "foo" -> <<FileRec(SdistTar), FileRec(WheelCp38)>>
          [] n = "pywin32" -> <<[file |-> WheelWin, hash |-> Hash("sha256", "h6")]>>
          [] n = "badwheel" -> <<FileRec(WheelBad)>>
          [] n = "md5pkg" -> <<[file |-> SdistTar, hash |-> Hash("md5", "m1")]>>
          [] n = "nopkg" -> <<[file |-> WheelUniversal, hash |-> Hash("sha256", "h7")]>>
          [] OTHER -> <<FileRec(SdistZip)>>]

\* list(packaging.tags.sys_tags()) and the environment of the running interpreter
SysTags == <<TagCp38, TagPy3Linux, TagPy3Any>>
SysEnvironment ==
    [n \in {"python_version", "sys_platform"} |->
        IF n = "python_version" THEN "3.8" ELSE "linux"]

CustomLabel == [text |-> "@custom//:lib"]

\* args.override_pkg; without the option it is None, which line 371 treats as
\* it does the empty list
Overrides == {<<>>, <<<<"bar", CustomLabel>>>>, <<<<"gitpkg", CustomLabel>>>>}

\* packages.bzl: what has been written to it
Output(rules, mapping, closed) ==
    [file |-> "packages.bzl", rules |-> rules, mapping |-> mapping, closed |-> closed]

\* a packages.bzl an earlier run completed
OldOutput == Output(<<>>, EmptyDict, TRUE)

MainOff ==
    /\ lock_file = <<>>
    /\ override_pkg = <<>>
    /\ packages_bzl = Absent
    /\ requirements_bzl = Absent
    /\ packages = EmptyDict
    /\ idx = 0
    /\ main_pc = "off"
    /\ failure = None

ResOff ==
    /\ cache_file = Absent
    /\ _cache = EmptyDict
    /\ _cache_modified = FALSE
    /\ res_pc = "off"
    /\ requests = <<>>
    /\ last_call = None
    /\ calls = 0
    /\ recorded = 0
    /\ writes = 0


InitFiles ==
    /\ files \in SeqsUpTo(FileUniverse, MaxFiles)
    /\ compatible_tags \in SeqsUpTo(TagUniverse, MaxTags)
    /\ bcf_result = None
    /\ bcf_pc = "call"
    /\ DepsOff
    /\ ResOff
    /\ MainOff

\* dist = best_compatible_file(files, compatible_tags)
CallBestCompatibleFile ==
    /\ bcf_pc = "call"
    /\ bcf_result' = best_compatible_file(files, compatible_tags)
    /\ bcf_pc' = "done"
    /\ UNCHANGED <<files, compatible_tags, depVars, resVars, mainVars>>

SpecFiles == InitFiles /\ [][CallBestCompatibleFile]_vars

(***************************************************************************)
(* What the claims say of best_compatible_file, stated without its loops.  *)
(***************************************************************************)
\* the tags a well-formed wheel name stands for
TagSet(filename) ==
    LET n == Len(filename.segs)
    IN  {<<filename.segs[n - 2][a], filename.segs[n - 1][b], filename.segs[n][c]>> :
            a \in 1..Len(filename.segs[n - 2]),
            b \in 1..Len(filename.segs[n - 1]),
            c \in 1..Len(filename.segs[n])}

WellFormed(fs) ==
    \A i \in 1..Len(fs) : IsWheelName(fs[i].file) => WheelNameSplits(fs[i].file)

\* 0-based positions in ctags of the tags of fs[i]
Positions(fs, i, ctags) ==
    {p \in 0..(Len(ctags) - 1) : ctags[p + 1] \in TagSet(fs[i].file)}

Matching(fs, ctags) ==
    {i \in 1..Len(fs) : IsWheelName(fs[i].file) /\ Positions(fs, i, ctags) # {}}

MinPos(fs, i, ctags) ==
    CHOOSE p \in Positions(fs, i, ctags) : \A q \in Positions(fs, i, ctags) : p <= q

Sources(fs) == {i \in 1..Len(fs) : ~IsWheelName(fs[i].file) /\ IsSourceName(fs[i].file)}

\* C1: when some wheel has a compatible tag, the result is the wheel whose best
\* (lowest) position in compatible_tags is lowest, and among wheels that share
\* it, the first in the order of files.
C1_BestWheel ==
    (bcf_pc = "done" /\ WellFormed(files) /\ Matching(files, compatible_tags) # {}) =>
        \E i \in Matching(files, compatible_tags) :
            /\ bcf_result = Dist("wheel", files[i])
            /\ \A j \in Matching(files, compatible_tags) :
                  \/ MinPos(files, i, compatible_tags) < MinPos(files, j, compatible_tags)
                  \/ /\ MinPos(files, i, compatible_tags) = MinPos(files, j, compatible_tags)
                     /\ i <= j

\* two matching wheels with the same best position, and a later, better one
C1_Witness ==
    /\ bcf_pc = "done"
    /\ files = <<FileRec(WheelUniversal), FileRec(WheelPy3), FileRec(WheelCp38)>>
    /\ compatible_tags = <<TagCp38, TagPy3Any>>
    /\ bcf_result = Dist("wheel", FileRec(WheelCp38))

\* C2: the result is a wheel exactly when some wheel has a compatible tag;
\* otherwise it is a source archive exactly when the list holds one, and then
\* the last one; otherwise it is None; and nothing is raised.
C2_SelectionPolicy ==
    (bcf_pc = "done" /\ WellFormed(files)) =>
        /\ ~Raised(bcf_result)
        /\ IF Matching(files, compatible_tags) # {}
           THEN bcf_result # None /\ bcf_result.type = "wheel"
           ELSE IF Sources(files) # {}
           THEN \E i \in Sources(files) :
                   /\ bcf_result = Dist("source", files[i])
                   /\ \A j \in Sources(files) : j <= i
           ELSE bcf_result = None

\* two source archives after a wheel that matches nothing: the last one is returned
C2_Witness ==
    /\ bcf_pc = "done"
    /\ files = <<FileRec(WheelPy3), FileRec(SdistTar), FileRec(SdistZip)>>
    /\ compatible_tags = <<TagCp38>>
    /\ bcf_result = Dist("source", FileRec(SdistZip))


InitDeps ==
    /\ BcfOff
    /\ ResOff
    /\ MainOff
    /\ pkg \in {[name |-> "foo", version |-> "1.0",
                 dependencies |-> <<Entry("bar", d), Entry("baz", d2)>>] :
                    d \in DepUniverse, d2 \in {Table(<<IsWin>>)}}
    /\ environment \in Environments
    /\ deps_result = None
    /\ deps_pc = "call"

\* deps = evaluated_deps(pkg)
CallEvaluatedDeps ==
    /\ deps_pc = "call"
    /\ deps_result' = evaluated_deps(pkg, environment)
    /\ deps_pc' = "done"
    /\ UNCHANGED <<pkg, environment, bcfVars, resVars, mainVars>>

SpecDeps == InitDeps /\ [][CallEvaluatedDeps]_vars

(***************************************************************************)
(* What the claims say of evaluated_deps: the meaning of a marker as a     *)
(* boolean expression ("and" binds tighter than "or", a nested list is a   *)
(* parenthesised sub-expression), stated on the marker as parsed.          *)
(***************************************************************************)
\* a comparison that references the variable `extra`
IsExtraClause(t) ==
    \/ t.lhs.isvar /\ t.lhs.value = "extra"
    \/ t.rhs.isvar /\ t.rhs.value = "extra"

\* the number of "or" items before item i: the disjunct item i belongs to
OrsBefore(m, i) == Cardinality({j \in 1..(i - 1) : m[j] = Str("or")})

IsAtom(m, i) == m[i].kind # "str"

\* the marker's value with every `extra` comparison taken to be true
RECURSIVE TruthExtraTrue(_, _)
TruthExtraTrue(m, env) ==
    \E g \in 0..Len(m) :
        /\ g <= OrsBefore(m, Len(m) + 1)
        /\ \A i \in 1..Len(m) :
              (IsAtom(m, i) /\ OrsBefore(m, i) = g) =>
                  IF m[i].kind = "list" THEN TruthExtraTrue(m[i].items, env)
                  ELSE IsExtraClause(m[i]) \/ EvalTuple(m[i], env)

\* a sub-expression all of whose comparisons reference `extra`
RECURSIVE AllExtra(_)
AllExtra(m) ==
    \A i \in 1..Len(m) :
        IsAtom(m, i) =>
            IF m[i].kind = "list" THEN AllExtra(m[i].items) ELSE IsExtraClause(m[i])

Dropped(a) == IF a.kind = "list" THEN AllExtra(a.items) ELSE IsExtraClause(a)

\* the marker's value with every `extra` comparison dropped together with the
\* "and" or "or" that joins it (so that `extra or A` is A); a marker with
\* nothing left is no marker
RECURSIVE TruthExtraDropped(_, _)
TruthExtraDropped(m, env) ==
    \/ AllExtra(m)
    \/ \E g \in 0..Len(m) :
        /\ \E i \in 1..Len(m) : IsAtom(m, i) /\ OrsBefore(m, i) = g /\ ~Dropped(m[i])
        /\ \A i \in 1..Len(m) :
              (IsAtom(m, i) /\ OrsBefore(m, i) = g /\ ~Dropped(m[i])) =>
                  IF m[i].kind = "list" THEN TruthExtraDropped(m[i].items, env)
                  ELSE EvalTuple(m[i], env)

\* a comparison that does not reference `extra` and looks up a name the
\* environment lacks
RECURSIVE RetainedUndefined(_, _)
RetainedUndefined(m, env) ==
    \E i \in 1..Len(m) :
        /\ IsAtom(m, i)
        /\ IF m[i].kind = "list" THEN RetainedUndefined(m[i].items, env)
           ELSE ~IsExtraClause(m[i]) /\ Undefined(env, LookedUp(m[i]))

\* a dependency whose spec is a table with a `markers` key
OwnMarker(dep) == dep.kind = "table" /\ "markers" \in DOMAIN dep

DepsRaise ==
    \E i \in 1..Len(pkg.dependencies) :
        /\ OwnMarker(pkg.dependencies[i].dep)
        /\ RetainedUndefined(pkg.dependencies[i].dep.markers, environment)

Names(entries) == [i \in 1..Len(entries) |-> entries[i].name]

\* C9 as amended: a dependency with no `markers` key of its own is included; one
\* with a marker is included exactly when the marker, with every `extra`
\* comparison taken to be true, is true in the environment; the names come out
\* in declaration order, each once; the call raises exactly when a comparison
\* that does not reference `extra` names no environment variable.
C9_ExtraIsTrue ==
    deps_pc = "done" =>
        IF DepsRaise THEN Raised(deps_result)
        ELSE LET Applies(e) == OwnMarker(e.dep) => TruthExtraTrue(e.dep.markers, environment)
             IN  /\ deps_result = Return(Names(SelectSeq(pkg.dependencies, Applies)))
                 /\ \A i, j \in 1..Len(deps_result.value) :
                       deps_result.value[i] = deps_result.value[j] => i = j

\* `extra == "foo" or sys_platform == "win32"` off Windows: bar is included
C9_Witness ==
    /\ deps_pc = "done"
    /\ pkg.dependencies[1].dep = Table(<<ExtraFoo, Str("or"), IsWin>>)
    /\ environment["sys_platform"] = "linux"
    /\ deps_result = Return(<<"bar">>)

\* C9 as claimed: a dependency with a marker is included exactly when the marker
\* with its `extra` comparisons removed (`A and extra` and `extra or A` both
\* being A) is true.
C9_ExtraRemoved ==
    (deps_pc = "done" /\ ~DepsRaise) =>
        LET Applies(e) == OwnMarker(e.dep) => TruthExtraDropped(e.dep.markers, environment)
        IN  deps_result = Return(Names(SelectSeq(pkg.dependencies, Applies)))

(***************************************************************************)
(* The life of one PyPILinkResolver in one process: construction (which    *)
(* loads the cache file), get_url calls, and the atexit handler            *)
(* _save_cache when the interpreter shuts down.                            *)
(***************************************************************************)
Url1 == PyStr("https://files/foo-cp38.whl")
Url3 == PyStr("https://files/bar-any.whl")
UrlOld == PyStr("https://files/old.whl")

\* the contents the cache file may have when the process starts
CacheFiles ==
    {Absent, EmptyText, GarbageText,
     JsonText(PyList(<<>>)),
     JsonText(PyDict([version |-> PyInt(2), data |-> PyDict([h1 |-> Url1])])),
     JsonText(PyDict([data |-> PyDict([h1 |-> Url1])])),
     JsonText(PyDict([version |-> PyInt(1)])),
     JsonText(PyDict([version |-> PyInt(1), data |-> PyList(<<>>)])),
     JsonText(PyDict([version |-> PyInt(1), data |-> None])),
     JsonText(CacheDocument(EmptyDict)),
     JsonText(CacheDocument(PyDict([h1 |-> Url1]))),
     JsonText(CacheDocument(PyDict([h3 |-> Url3, hx |-> UrlOld])))}

PackageNames == {"foo", "bar", "nopkg"}
Versions == {"1.0", "2.0"}
Digests == {"h1", "h2", "h3", "hx"}

Init ==
    /\ BcfOff
    /\ DepsOff
    /\ MainOff
    /\ cache_file \in CacheFiles
    /\ _cache = EmptyDict
    /\ _cache_modified = FALSE
    /\ res_pc = "new"
    /\ requests = <<>>
    /\ last_call = None
    /\ calls = 0
    /\ recorded = 0
    /\ writes = 0

\* __init__, lines 68-73.  An exception of _load_cache leaves __init__ before
\* atexit.register and ends the process.
Construct ==
    /\ res_pc = "new"
    /\ LET loaded == _load_cache(cache_file)
       IN  IF Raised(loaded)
           THEN res_pc' = "crashed" /\ UNCHANGED _cache
           ELSE res_pc' = "ready" /\ _cache' = loaded
    /\ UNCHANGED <<cache_file, _cache_modified, requests, last_call, calls,
                   recorded, writes, bcfVars, depVars, mainVars>>

\* one get_url call; an exception is caught by nobody and ends the process
GetUrl ==
    /\ res_pc = "ready"
    /\ calls < MaxCalls
    /\ \E name \in PackageNames, version \in Versions, sha256 \in Digests :
         \E status \in Statuses(name) :
            \E r \in {get_url(_cache, _cache_modified, name, version, sha256, status)} :
                /\ _cache' = r.cache
                /\ _cache_modified' = r.modified
                /\ requests' = requests \o r.sent
                /\ recorded' = recorded + r.recorded
                /\ last_call' = [name |-> name, version |-> version,
                                 sha256 |-> sha256, result |-> r.result]
                /\ res_pc' = IF Raised(r.result) THEN "atexit" ELSE "ready"
    /\ calls' = calls + 1
    /\ UNCHANGED <<cache_file, writes, bcfVars, depVars, mainVars>>

\* the interpreter shuts down and runs the atexit handlers
Terminate ==
    /\ res_pc = "ready"
    /\ res_pc' = "atexit"
    /\ UNCHANGED <<cache_file, _cache, _cache_modified, requests, last_call,
                   calls, recorded, writes, bcfVars, depVars, mainVars>>

\* _save_cache, lines 94-99: return at once, or create the directories and
\* open the file for writing, which truncates it
SaveOpen ==
    /\ res_pc = "atexit"
    /\ IF Saves(_cache_modified)
       THEN /\ cache_file' = EmptyText
            /\ writes' = writes + 1
            /\ res_pc' = "saving"
       ELSE /\ res_pc' = "exited"
            /\ UNCHANGED <<cache_file, writes>>
    /\ UNCHANGED <<_cache, _cache_modified, requests, last_call, calls,
                   recorded, bcfVars, depVars, mainVars>>

\* line 100: json.dump writes the document piece by piece; the file's buffer
\* reaches the disk when it fills, before the document is complete
SaveFlush ==
    /\ res_pc = "saving"
    /\ cache_file = EmptyText
    /\ cache_file' = PartialText(CacheDocument(_cache))
    /\ UNCHANGED <<_cache, _cache_modified, res_pc, requests, last_call, calls,
                   recorded, writes, bcfVars, depVars, mainVars>>

\* lines 99-100: the with block ends, the file is closed, the document is on disk
SaveClose ==
    /\ res_pc = "saving"
    /\ cache_file' = JsonText(CacheDocument(_cache))
    /\ res_pc' = "exited"
    /\ UNCHANGED <<_cache, _cache_modified, requests, last_call, calls,
                   recorded, writes, bcfVars, depVars, mainVars>>

Next == Construct \/ GetUrl \/ Terminate \/ SaveOpen \/ SaveFlush \/ SaveClose

Spec == Init /\ [][Next]_vars

(***************************************************************************)
(* What the claims say of the resolver.                                    *)
(***************************************************************************)
\* the step is a get_url call
IsGetUrlCall == calls' = calls + 1

InCache(sha256) == IsDict(_cache) /\ sha256 \in DOMAIN _cache.dict

Requested(name) == \E i \in 1..Len(requests) : requests[i] = name

\* C3: a get_url call whose hash is in the cache mapping, loaded from the file
\* or recorded by an earlier call, returns the stored url and sends no request,
\* whatever package name and version it is given.
C3_CacheHit ==
    [][(IsGetUrlCall /\ InCache(last_call'.sha256)) =>
            /\ last_call'.result = _cache.dict[last_call'.sha256]
            /\ requests' = requests]_vars

\* with no cache file, h1 was resolved for foo 1.0 by one request, and asked
\* for again under another name and version: same url, still one request
C3_Witness ==
    /\ cache_file = Absent
    /\ calls = 2
    /\ requests = <<"foo">>
    /\ last_call = [name |-> "bar", version |-> "2.0", sha256 |-> "h1", result |-> Url1]

\* C4: a get_url call for a package whose metadata was already requested in
\* this run sends no request.
C4_OncePerPackage ==
    [][(IsGetUrlCall /\ Requested(last_call'.name)) => requests' = requests]_vars

\* a file _save_cache wrote: {"version": 1, "data": {hash: url, ...}}
WrittenBySave(file) ==
    /\ file.file = "json"
    /\ IsDict(file.value)
    /\ DOMAIN file.value.dict = {"version", "data"}
    /\ file.value.dict["version"] = PyInt(1)
    /\ IsDict(file.value.dict["data"])

\* C5: loading never fails the run; a file _save_cache wrote loads to the
\* mapping it holds, and every other content leaves the cache empty.
C5_LoadNeverFails ==
    /\ res_pc # "crashed"
    /\ (res_pc = "ready" /\ calls = 0) =>
          _cache = IF WrittenBySave(cache_file)
                   THEN cache_file.value.dict["data"]
                   ELSE EmptyDict

\* C6: the cache file is not written before the process terminates; at
\* termination it is written once if get_url recorded an entry, and holds the
\* cache then, and is not written if none was recorded.
C6_FlushOnce ==
    /\ res_pc \in {"new", "ready", "atexit", "crashed"} => writes = 0
    /\ res_pc = "saving" => writes = 1 /\ recorded > 0
    /\ res_pc = "exited" =>
          /\ writes = IF recorded > 0 THEN 1 ELSE 0
          /\ recorded > 0 => cache_file = JsonText(CacheDocument(_cache))

\* two entries recorded during the run, one write at exit
C6_Witness ==
    /\ res_pc = "exited"
    /\ recorded = 2
    /\ writes = 1

\* C7: at every step the cache file that held a complete document holds the
\* complete old document or the complete new one.
C7_NoCorruption ==
    [][cache_file.file = "json" =>
            cache_file' \in {cache_file, JsonText(CacheDocument(_cache))}]_vars

(***************************************************************************)
(* One run of main.                                                        *)
(***************************************************************************)
InitMain ==
    /\ BcfOff
    /\ DepsOff
    /\ lock_file \in {[package |-> ps, metadata |-> [files |-> MetadataFiles]] :
                        ps \in SeqsUpTo(PackageUniverse, MaxPackages)}
    /\ override_pkg \in Overrides
    /\ packages_bzl \in {Absent, OldOutput}
    /\ requirements_bzl = Absent
    /\ packages = EmptyDict
    /\ idx = 0
    /\ main_pc = "start"
    /\ failure = None
    /\ cache_file \in {Absent, JsonText(CacheDocument(PyDict([h1 |-> Url1]))),
                       JsonText(PyDict([version |-> PyInt(1)]))}
    /\ _cache = EmptyDict
    /\ _cache_modified = FALSE
    /\ res_pc = "new"
    /\ requests = <<>>
    /\ last_call = None
    /\ calls = 0
    /\ recorded = 0
    /\ writes = 0

\* lines 296-341: packages.bzl is opened for writing and its preamble written,
\* then the resolver is constructed
MainStart ==
    /\ main_pc = "start"
    /\ packages_bzl' = Output(<<>>, None, FALSE)
    /\ LET loaded == _load_cache(cache_file)
       IN  IF Raised(loaded)
           THEN /\ res_pc' = "crashed"
                /\ main_pc' = "aborted"
                /\ failure' = loaded
                /\ UNCHANGED _cache
           ELSE /\ res_pc' = "ready"
                /\ main_pc' = "loop"
                /\ failure' = None
                /\ _cache' = loaded
    /\ idx' = 1
    /\ UNCHANGED <<lock_file, override_pkg, requirements_bzl, packages, cache_file,
                   _cache_modified, requests, last_call, calls, recorded, writes,
                   bcfVars, depVars>>

\* lines 342-367: one pass of the loop over lock_file["package"]
LoopBody ==
    /\ main_pc = "loop"
    /\ idx <= Len(lock_file.package)
    /\ LET p == lock_file.package[idx]
       IN  \E status \in Statuses(p.name) :
              \E o \in {ProcessPackage(p, lock_file.metadata.files[p.name], SysTags,
                                        SysEnvironment, _cache, _cache_modified, status)} :
                  /\ packages_bzl' = [packages_bzl EXCEPT !.rules = @ \o o.rules]
                  /\ packages' =
                        IF o.mapped
                        THEN PyDict([n \in DOMAIN packages.dict \cup {p.name} |->
                                IF n = p.name THEN Label(WorkspaceName(p))
                                ELSE packages.dict[n]])
                        ELSE packages
                  /\ failure' = o.failure
                  /\ main_pc' = IF Raised(o.failure) THEN "aborted" ELSE "loop"
                  /\ res_pc' = IF Raised(o.failure) THEN "atexit" ELSE res_pc
                  /\ _cache' = o.cache
                  /\ _cache_modified' = o.modified
                  /\ requests' = requests \o o.sent
                  /\ recorded' = recorded + o.recorded
                  /\ calls' = IF o.called THEN calls + 1 ELSE calls
                  /\ last_call' = IF o.called
                                  THEN [name |-> p.name, version |-> p.version,
                                        sha256 |-> o.sha256, result |-> o.url]
                                  ELSE last_call
    /\ idx' = idx + 1
    /\ UNCHANGED <<lock_file, override_pkg, requirements_bzl, cache_file, writes,
                   bcfVars, depVars>>

\* lines 368-386: the overrides are merged in, the mapping is written,
\* packages.bzl is closed, requirements.bzl is written; then main returns and
\* the interpreter shuts down
Finish ==
    /\ main_pc = "loop"
    /\ idx > Len(lock_file.package)
    /\ LET merged == IF override_pkg # <<>>
                     THEN PyDict(Overridden(packages.dict, override_pkg, 1))
                     ELSE packages
       IN  /\ packages' = merged
           /\ packages_bzl' = [packages_bzl EXCEPT !.mapping = merged, !.closed = TRUE]
    /\ requirements_bzl' = [file |-> "requirements.bzl", closed |-> TRUE]
    /\ main_pc' = "done"
    /\ res_pc' = "atexit"
    /\ UNCHANGED <<lock_file, override_pkg, idx, failure, cache_file, _cache,
                   _cache_modified, requests, last_call, calls, recorded, writes,
                   bcfVars, depVars>>

NextMain == MainStart \/ LoopBody \/ Finish \/ SaveOpen \/ SaveFlush \/ SaveClose

SpecMain == InitMain /\ [][NextMain]_vars

(***************************************************************************)
(* What the claims say of a run of main.                                   *)
(***************************************************************************)
\* the fatal conditions of resolving a package: the index answers 404 or
\* another status that is not 200, the index lists no file of the wheel's
\* digest, a marker names no environment variable, a wheel's name does not
\* split into its tags, a file's hash is not a sha256
FatalConditions ==
    {Raise("does not exist on PyPI"), Raise("http status"),
     Raise("Could not resolve PyPI url"), Raise("UndefinedEnvironmentName"),
     Raise("ValueError"), Raise("file hash is not sha256")}

\* C8: after a fatal condition in the resolution of a package, packages.bzl is
\* as it was before the run, absent or complete; it is never left opened with
\* only part of its content.
C8_NoPartialOutput ==
    (main_pc = "aborted" /\ failure \in FatalConditions) =>
        (packages_bzl = Absent \/ packages_bzl.closed)

\* the packages of the lock file the loop writes a rule for: those without a
\* `source` that have a compatible wheel or a source archive
HasRule(p) ==
    /\ ~p.source
    /\ \/ Matching(lock_file.metadata.files[p.name], SysTags) # {}
       \/ Sources(lock_file.metadata.files[p.name]) # {}

\* the declared dependencies of p that apply in the environment of the run
Applying(p) ==
    LET Applies(e) == OwnMarker(e.dep) => TruthExtraTrue(e.dep.markers, SysEnvironment)
    IN  Names(SelectSeq(p.dependencies, Applies))

OverrideKeys == {override_pkg[k][1] : k \in 1..Len(override_pkg)}

====
